---- MODULE Spec2Model ----
(***************************************************************************)
(* Model of the whitepaper-to-socials pipeline (src/whitepaper2li.py):     *)
(* the progress ledger (state.db), the similarity gate, the generation     *)
(* orchestrator, the persistence router (NocoDB with CSV fallback) and the *)
(* pipeline driver WhitepaperProcessor.process().                          *)
(*                                                                         *)
(* Texts are sequences of one-character strings.  "EM" stands for the em   *)
(* dash character, "-" for the hyphen, " " for any whitespace character.   *)
(* External collaborators (OpenAI, NocoDB over HTTP) are modelled by their *)
(* outcome, drawn nondeterministically: a reply, or a raised exception.    *)
(* The local file system (state.db, the CSV file) is assumed to work.      *)
(***************************************************************************)
EXTENDS Integers, Sequences, FiniteSets, TLC

(* ------------------------------ bounds --------------------------------- *)
\* number of valid figures in content_inputs/images (fixed asset directory)
NumFigures == 2
\* number of runs of process() that are started
MaxRuns == 2
\* number of separator-delimited segments in one generation reply
MaxSegs == 2
\* number of artifacts the two sinks hold together
MaxStored == 3
\* latest value of the wall clock
MaxClock == 0

(* ------------------------------ texts ---------------------------------- *)
Range(s) == {s[i] : i \in 1..Len(s)}

Reverse(s) == [i \in 1..Len(s) |-> s[Len(s) + 1 - i]]

\* str.lower(), one character
LowerChar(c) == IF c = "A" THEN "a" ELSE IF c = "B" THEN "b" ELSE c

\* str.lower()
lower(s) == [i \in 1..Len(s) |-> LowerChar(s[i])]

RECURSIVE SplitAcc(_, _, _)
SplitAcc(s, cur, acc) ==
    IF s = <<>>
    THEN IF cur = <<>> THEN acc ELSE Append(acc, cur)
    ELSE IF Head(s) = " "
         THEN SplitAcc(Tail(s), <<>>, IF cur = <<>> THEN acc ELSE Append(acc, cur))
         ELSE SplitAcc(Tail(s), Append(cur, Head(s)), acc)

\* str.split(): the whitespace-delimited words, in order
split(s) == SplitAcc(s, <<>>, <<>>)

RECURSIVE lstrip(_)
lstrip(s) == IF s # <<>> /\ Head(s) = " " THEN lstrip(Tail(s)) ELSE s

\* str.strip()
strip(s) == Reverse(lstrip(Reverse(lstrip(s))))

\* str.replace(em dash, '-')
replace_em_dash(s) == [i \in 1..Len(s) |-> IF s[i] = "EM" THEN "-" ELSE s[i]]

\* set(text.lower().split())
WordSet(text) == Range(split(lower(text)))

(* -------------------------- similarity gate ---------------------------- *)
\* thresholds are rationals <<numerator, denominator>>
DefaultThreshold == <<7, 10>>
GateThreshold == <<3, 5>>

\* mutant: similarity >= threshold
SimilarityAtLeast(new_words, recent_words, threshold) ==
    Cardinality(new_words \cap recent_words) * threshold[2]
        >= threshold[1] * Cardinality(new_words \cup recent_words)

\* intersection / union > threshold, for non-empty word sets
SimilarityExceeds(new_words, recent_words, threshold) ==
    LET intersection == Cardinality(new_words \cap recent_words)
        union == Cardinality(new_words \cup recent_words)
    IN  IF union > 0
        THEN intersection * threshold[2] > threshold[1] * union
        ELSE 0 > threshold[1]

RECURSIVE check_content_similarity(_, _, _)
check_content_similarity(new_post, recent_posts, threshold) ==
    IF recent_posts = <<>>
    THEN FALSE
    ELSE LET new_words == WordSet(new_post)
             recent_words == WordSet(Head(recent_posts))
         IN  IF Cardinality(new_words) = 0 \/ Cardinality(recent_words) = 0
             THEN check_content_similarity(new_post, Tail(recent_posts), threshold)
             ELSE IF SimilarityExceeds(new_words, recent_words, threshold)
                  THEN TRUE
                  ELSE check_content_similarity(new_post, Tail(recent_posts), threshold)

(* ------------------------------ ledger --------------------------------- *)
\* hashlib.sha256 of the document bytes; injective on the modelled documents
get_pdf_hash(pdf_bytes) == <<"sha256", pdf_bytes>>

\* the document every run is given
PdfBytes == "whitepaper"

\* values of CURRENT_TIMESTAMP
Timestamps == 0..MaxClock

\* latest created_at in the table (timestamps never run backwards)
LatestTimestamp(table) ==
    IF table = {} THEN 0
    ELSE CHOOSE t \in {r.created_at : r \in table} :
             \A r \in table : r.created_at <= t

\* mutant: a plain INSERT into a table without the primary key
mark_processed_inserting(table, pdf_hash, image_index, timestamp) ==
    table \cup {[pdf_sha256 |-> pdf_hash, image_index |-> image_index,
                 processed |-> TRUE, created_at |-> timestamp]}

\* mutant: the table is emptied before the row is written
mark_processed_truncating(table, pdf_hash, image_index, timestamp) ==
    {[pdf_sha256 |-> pdf_hash, image_index |-> image_index,
      processed |-> TRUE, created_at |-> timestamp]}

\* INSERT OR REPLACE INTO processing_state (pdf_sha256, image_index, processed)
\* VALUES (?, ?, TRUE); created_at takes its default, CURRENT_TIMESTAMP
mark_processed(table, pdf_hash, image_index, timestamp) ==
    {r \in table : ~(r.pdf_sha256 = pdf_hash /\ r.image_index = image_index)}
    \cup {[pdf_sha256 |-> pdf_hash, image_index |-> image_index,
           processed |-> TRUE, created_at |-> timestamp]}

RECURSIVE RangeExcept(_, _, _)
\* [i for i in range(lo, total_images) if i not in processed]
RangeExcept(lo, total_images, processed) ==
    IF lo >= total_images THEN <<>>
    ELSE (IF lo \in processed THEN <<>> ELSE <<lo>>)
         \o RangeExcept(lo + 1, total_images, processed)

\* mutant: the WHERE clause does not name the document
get_unprocessed_images_any_document(table, pdf_hash, total_images) ==
    RangeExcept(0, total_images, {r.image_index : r \in {q \in table : q.processed}})

\* mutant: the SELECT finds no processed row
get_unprocessed_images_all(table, pdf_hash, total_images) ==
    RangeExcept(0, total_images, {})

\* SELECT image_index ... WHERE pdf_sha256 = ? AND processed = TRUE
get_unprocessed_images(table, pdf_hash, total_images) ==
    LET processed == {r.image_index : r \in
                        {q \in table : q.pdf_sha256 = pdf_hash /\ q.processed}}
    IN  RangeExcept(0, total_images, processed)

(* ------------------------- analysis collaborator ----------------------- *)
\* what the vision model replies: the JSON value it sends (by shape), possibly
\* inside a ```json fence, or text that is not JSON
AnalysisBodies == {"insights_text", "insights_object_list", "free_text"}

AnalysisReplies == [fenced : BOOLEAN, body : AnalysisBodies]

\* mutant: text that is not JSON is handed on as it came
analyze_image_raw(reply) == reply.body

\* the try block of _analyze_image: json.loads of the (unfenced) content, or
\* the minimal object carrying the raw reply text
analyze_image(reply) ==
    IF reply.body = "free_text" THEN "raw_fallback" ELSE reply.body

\* _store_in_nocodb lines 439-458: json.loads(image_description) gives the
\* analysis back; '\n'.join(desc_dict['key_insights']) raises TypeError on a
\* list that holds objects, and only JSONDecodeError and IndexError are caught
DescriptionRaises(image_analysis) ==
    image_analysis = "insights_object_list"

(* ------------------------ generation collaborator ---------------------- *)
\* raw segments between two "---POST SEPARATOR---" markers
Segments == { <<" ">>, <<" ", "a">>, <<"b", "EM">> }

RECURSIVE SeqsUpTo(_, _)
SeqsUpTo(S, n) ==
    IF n = 0 THEN { <<>> }
    ELSE LET shorter == SeqsUpTo(S, n - 1)
         IN  shorter \cup {Append(q, x) : q \in {r \in shorter : Len(r) = n - 1}, x \in S}

\* content.split("---POST SEPARATOR---"): at least one segment
GenReplies == SeqsUpTo(Segments, MaxSegs) \ { <<>> }

RECURSIVE clean_posts_unchecked(_, _, _)
\* mutant: the similarity check of lines 361-363 is left out
clean_posts_unchecked(posts, recent_full_posts, filter) ==
    IF posts = <<>> THEN <<>>
    ELSE IF strip(Head(posts)) = <<>>
         THEN clean_posts_unchecked(Tail(posts), recent_full_posts, filter)
         ELSE <<replace_em_dash(strip(Head(posts)))>>
              \o clean_posts_unchecked(Tail(posts), recent_full_posts, filter)

RECURSIVE clean_posts_always_checked(_, _, _)
\* mutant: the regenerated posts go through the similarity check as well
clean_posts_always_checked(posts, recent_full_posts, filter) ==
    IF posts = <<>> THEN <<>>
    ELSE LET post == Head(posts)
             rest == clean_posts_always_checked(Tail(posts), recent_full_posts, filter)
             cleaned_post == replace_em_dash(strip(post))
         IN  IF strip(post) = <<>> THEN rest
             ELSE IF check_content_similarity(cleaned_post,
                                    recent_full_posts, GateThreshold)
                  THEN rest
                  ELSE <<cleaned_post>> \o rest

RECURSIVE clean_posts(_, _, _)
\* lines 353-365 (filter = TRUE) and 389-392 (filter = FALSE)
clean_posts(posts, recent_full_posts, filter) ==
    IF posts = <<>> THEN <<>>
    ELSE LET post == Head(posts)
             rest == clean_posts(Tail(posts), recent_full_posts, filter)
             cleaned_post == replace_em_dash(strip(post))
         IN  IF strip(post) = <<>> THEN rest
             ELSE IF filter /\ check_content_similarity(cleaned_post,
                                    recent_full_posts, GateThreshold)
                  THEN rest
                  ELSE <<cleaned_post>> \o rest

(* ------------------------------ NocoDB --------------------------------- *)
ConfigKeys == {"base_url", "api_key", "table_id", "base_id"}

\* the environments a processor is constructed in
Configs == { ConfigKeys, ConfigKeys \ {"base_id"}, ConfigKeys \ {"api_key"} }

\* limit of _get_recent_posts
RecentLimit == 10

\* words[:n] joined by single spaces
RECURSIVE JoinWords(_)
JoinWords(words) ==
    IF words = <<>> THEN <<>>
    ELSE IF Len(words) = 1 THEN Head(words)
    ELSE Head(words) \o <<" ">> \o JoinWords(Tail(words))

IntroWords == 20

first_words(post_content) ==
    LET words == split(post_content)
    IN  JoinWords(SubSeq(words, 1, IF Len(words) < IntroWords THEN Len(words) ELSE IntroWords))

RECURSIVE NonEmptyPosts(_)
NonEmptyPosts(records) ==
    IF records = <<>> THEN <<>>
    ELSE (IF Head(records).post # <<>> THEN <<Head(records).post>> ELSE <<>>)
         \o NonEmptyPosts(Tail(records))

\* GET records?limit=10&sort=-CreatedAt: the newest records first
NewestFirst(table, limit) ==
    LET n == IF Len(table) < limit THEN Len(table) ELSE limit
    IN  [i \in 1..n |-> table[Len(table) + 1 - i]]

\* mutant: the window is returned although it could not be read
get_recent_posts_regardless(cfg, table, fetch_ok) ==
    LET full == NonEmptyPosts(NewestFirst(table, RecentLimit))
    IN  << [i \in 1..Len(full) |-> first_words(full[i])], full >>

\* _get_recent_posts: <<recent_intros, recent_full_posts>>
get_recent_posts(cfg, table, fetch_ok) ==
    IF ~({"base_url", "api_key", "table_id"} \subseteq cfg) THEN << <<>>, <<>> >>
    ELSE IF ~fetch_ok THEN << <<>>, <<>> >>
    ELSE LET full == NonEmptyPosts(NewestFirst(table, RecentLimit))
         IN  << [i \in 1..Len(full) |-> first_words(full[i])], full >>

CsvHeader == <<"post", "image", "image_description", "image_index", "created_at">>

\* mutant: the file is opened with mode 'w'
save_to_csv_truncating(file, post, image_path, image_description, image_index) ==
    << CsvHeader,
       [post |-> post, image |-> image_path,
        image_description |-> image_description, image_index |-> image_index] >>

\* _save_to_csv: the header row on first write, then one row
save_to_csv(file, post, image_path, image_description, image_index) ==
    (IF file = <<>> THEN <<CsvHeader>> ELSE file)
    \o << [post |-> post, image |-> image_path,
           image_description |-> image_description, image_index |-> image_index] >>

(* --------------------------- pipeline state ---------------------------- *)
\* processor slots; runs serialized by the operator use the first one only
Procs == {1, 2}
SerialProcs == {1}

VARIABLES
    ledger,         \* state.db, table processing_state: a set of rows
    nocodb,         \* records of the NocoDB table, oldest first
    csv,            \* rows of the fallback CSV file, <<>> while it does not exist
    image_dir,      \* valid image paths of content_inputs/images, as _extract_images lists them
    run,            \* per processor: the position of process() and its locals
    runs,           \* number of runs started so far
    committedRuns,  \* history: per figure index, the runs that committed an artifact of it
    deliveredRuns,  \* history: per figure index, the runs in which generation returned
                    \* and every post it returned (possibly none) was committed
    gate,           \* a call of _check_content_similarity on its own: arguments and result
    query,          \* a call of a ledger operation on its own: arguments and result
    assets,         \* content_inputs/images as _extract_images finds it, and what it returned
    cli,            \* main(): the environment it was started in and how far it got
    call            \* a call of another method on its own: arguments and result

vars == <<ledger, nocodb, csv, image_dir, run, runs, committedRuns, deliveredRuns,
          gate, query, assets, cli, call>>

pipeline == <<ledger, nocodb, csv, image_dir, run, runs, committedRuns, deliveredRuns>>

\* the sorted valid images images-000.png, images-001.png, ...
ImageName(i) == <<"content_inputs/images", i>>

FigureIndices == 0..(NumFigures - 1)

\* what a processor remembers of the run before its current one
NoPrev == [test_mode |-> FALSE, outcome |-> "none", failed_op |-> "none", failed_idx |-> -1]

\* pc: the position in process(); id: the number of the run; outcome: how the
\* run ended; unprocessed, todo: unprocessed_indices and what is left of
\* images_to_process (its head is image_index); posts: what is left of posts;
\* base: the sizes of the sinks when the run began; log: what the run has done
IdleRun == [pc |-> "idle", id |-> 0, cfg |-> {}, test_mode |-> FALSE,
            outcome |-> "none", prev |-> NoPrev,
            base |-> [nocodb |-> 0, csv |-> 0],
            overlap |-> {},
            pdf_hash |-> <<>>, unprocessed |-> <<>>, todo |-> <<>>,
            image_analysis |-> "none", posts |-> <<>>, log |-> <<>>]

\* (overlap is a history field: the runs of other processors that were in
\* progress when this run started)
\* the run a processor has just ended, as the next run remembers it
Summary(r) ==
    IF r.outcome = "raised"
    THEN [test_mode |-> r.test_mode, outcome |-> r.outcome,
          failed_op |-> r.log[Len(r.log)].op, failed_idx |-> r.log[Len(r.log)].idx]
    ELSE [test_mode |-> r.test_mode, outcome |-> r.outcome,
          failed_op |-> "none", failed_idx |-> -1]

\* no call of the gate on its own
NoCall == [new_post |-> <<>>, recent_posts |-> <<>>, threshold |-> DefaultThreshold,
           returned |-> FALSE, result |-> FALSE]

\* no call of a ledger operation on its own
NoQuery == [op |-> "none", pdf_hash |-> <<>>, image_index |-> -1, total_images |-> -1,
            present |-> FALSE, result |-> <<>>, marks |-> 0]

\* no directory looked at
NoAssets == [exists |-> FALSE, files |-> {}, returned |-> << >>]

\* main() not started; db_created: a processor that main() constructed has
\* run _init_db
NoCli == [env |-> {}, status |-> "none", db_created |-> FALSE, starts |-> 0]

\* no call of another method on its own
NoOperation == [op |-> "none", args |-> <<>>, result |-> <<>>]

Init ==
    /\ gate = NoCall
    /\ query = NoQuery
    /\ assets = NoAssets
    /\ cli = NoCli
    /\ call = NoOperation
    /\ ledger = {}
    /\ nocodb = <<>>
    /\ csv = <<>>
    /\ \E n \in 0..NumFigures : image_dir = [i \in 1..n |-> ImageName(i - 1)]
    /\ run = [p \in Procs |-> IdleRun]
    /\ runs = 0
    /\ committedRuns = [i \in FigureIndices |-> {}]
    /\ deliveredRuns = [i \in FigureIndices |-> {}]

\* process() has ended: by return, by an escaping exception, or by sys.exit(1)
Finish(r, how) == [r EXCEPT !.pc = "idle", !.outcome = how]

\* mutant: test mode takes the last unprocessed image instead of the first
construct_and_process_last(p, cfg, test_mode, convert_ok) ==
    /\ runs < MaxRuns
    /\ run[p].pc = "idle"
    /\ runs' = runs + 1
    /\ LET fresh == [IdleRun EXCEPT !.id = runs + 1, !.cfg = cfg,
                        !.test_mode = test_mode, !.outcome = "running",
                        !.prev = Summary(run[p]),
                        !.base = [nocodb |-> Len(nocodb), csv |-> Len(csv)],
                        !.overlap = {run[q].id : q \in {r \in Procs \ {p} :
                                                           run[r].pc # "idle"}}]
           pdf_hash == get_pdf_hash(PdfBytes)
           unprocessed_indices == get_unprocessed_images(ledger, pdf_hash, Len(image_dir))
           images_to_process == IF test_mode THEN <<unprocessed_indices[Len(unprocessed_indices)]>>
                                ELSE unprocessed_indices
       IN  run' = [run EXCEPT ![p] =
                IF ~convert_ok THEN Finish(fresh, "exited")
                ELSE IF image_dir = <<>> THEN Finish(fresh, "returned")
                ELSE IF unprocessed_indices = <<>>
                     THEN Finish([fresh EXCEPT !.pdf_hash = pdf_hash], "returned")
                     ELSE [fresh EXCEPT !.pc = "analyze", !.pdf_hash = pdf_hash,
                                        !.unprocessed = unprocessed_indices,
                                        !.todo = images_to_process]]
    /\ UNCHANGED <<ledger, nocodb, csv, image_dir, committedRuns, deliveredRuns,
                   gate, query, assets, call>>

\* WhitepaperProcessor(...) followed by process() up to the head of the for loop
construct_and_process(p, cfg, test_mode, convert_ok) ==
    /\ runs < MaxRuns
    /\ run[p].pc = "idle"
    /\ runs' = runs + 1
    /\ LET fresh == [IdleRun EXCEPT !.id = runs + 1, !.cfg = cfg,
                        !.test_mode = test_mode, !.outcome = "running",
                        !.prev = Summary(run[p]),
                        !.base = [nocodb |-> Len(nocodb), csv |-> Len(csv)],
                        !.overlap = {run[q].id : q \in {r \in Procs \ {p} :
                                                           run[r].pc # "idle"}}]
           pdf_hash == get_pdf_hash(PdfBytes)
           unprocessed_indices == get_unprocessed_images(ledger, pdf_hash, Len(image_dir))
           images_to_process == IF test_mode THEN <<Head(unprocessed_indices)>>
                                ELSE unprocessed_indices
       IN  run' = [run EXCEPT ![p] =
                IF ~convert_ok THEN Finish(fresh, "exited")
                ELSE IF image_dir = <<>> THEN Finish(fresh, "returned")
                ELSE IF unprocessed_indices = <<>>
                     THEN Finish([fresh EXCEPT !.pdf_hash = pdf_hash], "returned")
                     ELSE [fresh EXCEPT !.pc = "analyze", !.pdf_hash = pdf_hash,
                                        !.unprocessed = unprocessed_indices,
                                        !.todo = images_to_process]]
    /\ UNCHANGED <<ledger, nocodb, csv, image_dir, committedRuns, deliveredRuns,
                   gate, query, assets, call>>

\* a caller constructs a processor in its environment and calls process()
StartRun(p, cfg, test_mode, convert_ok) ==
    /\ construct_and_process(p, cfg, test_mode, convert_ok)
    /\ UNCHANGED cli

\* line 549: _analyze_image returns a result
AnalyzeOk(p, reply) ==
    /\ run[p].pc = "analyze"
    /\ run' = [run EXCEPT ![p] =
            [@ EXCEPT !.pc = "generate",
                      !.image_analysis = analyze_image(reply),
                      !.log = Append(@, [op |-> "analyze", idx |-> Head(run[p].todo)])]]
    /\ UNCHANGED <<ledger, nocodb, csv, image_dir, runs, committedRuns, deliveredRuns, gate, query, assets, cli, call>>

\* mutant: the figure is marked although its analysis raised
AnalyzeFail_marking(p) ==
    /\ run[p].pc = "analyze"
    /\ ledger' = mark_processed(ledger, run[p].pdf_hash, Head(run[p].todo),
                                LatestTimestamp(ledger))
    /\ run' = [run EXCEPT ![p] =
            Finish([@ EXCEPT !.log = Append(@, [op |-> "analyze_failed",
                                                idx |-> Head(run[p].todo)])], "raised")]
    /\ UNCHANGED <<nocodb, csv, image_dir, runs, committedRuns, deliveredRuns, gate, query, assets, cli, call>>

\* line 549: the API call of _analyze_image raises
AnalyzeFail(p) ==
    /\ run[p].pc = "analyze"
    /\ run' = [run EXCEPT ![p] =
            Finish([@ EXCEPT !.log = Append(@, [op |-> "analyze_failed",
                                                idx |-> Head(run[p].todo)])], "raised")]
    /\ UNCHANGED <<ledger, nocodb, csv, image_dir, runs, committedRuns, deliveredRuns, gate, query, assets, cli, call>>

\* a chat completion: it raises, or replies with content that
\* content.split("---POST SEPARATOR---") cuts into segments
Raise == [raised |-> TRUE, segments |-> <<>>]

Replies == {Raise} \cup {[raised |-> FALSE, segments |-> c] : c \in GenReplies}

\* mutant: no regeneration pass
regenerate_never(cleaned_posts, recent_full_posts) == FALSE

\* mutant: the window is not looked at
regenerate_without_window(cleaned_posts, recent_full_posts) ==
    cleaned_posts = <<>>

\* line 368: "if not cleaned_posts and recent_full_posts"
regenerate(cleaned_posts, recent_full_posts) ==
    cleaned_posts = <<>> /\ recent_full_posts # <<>>

\* _generate_linkedin_posts (lines 219-394) given what _get_recent_posts
\* returned at line 217 and the replies of the generation service: the posts
\* it returns and the calls it made, or the call that raised; survivors and
\* dropped count the initial candidates the check of line 361 kept and removed,
\* regen_segments is the split reply of the second completion (line 386)
generate_linkedin_posts(recent, reply, regen_reply) ==
    IF reply.raised
    THEN [raised |-> TRUE, calls |-> 1, window |-> recent[2],
          regenerated |-> FALSE, survivors |-> 0, dropped |-> 0,
          regen_segments |-> <<>>, posts |-> <<>>]
    ELSE LET cleaned_posts == clean_posts(reply.segments, recent[2], TRUE)
             dropped == Len(clean_posts(reply.segments, <<>>, TRUE)) - Len(cleaned_posts)
         IN  IF ~regenerate(cleaned_posts, recent[2])
             THEN [raised |-> FALSE, calls |-> 1, window |-> recent[2],
                   regenerated |-> FALSE, survivors |-> Len(cleaned_posts),
                   dropped |-> dropped, regen_segments |-> <<>>,
                   posts |-> cleaned_posts]
             ELSE IF regen_reply.raised
             THEN [raised |-> TRUE, calls |-> 2, window |-> recent[2],
                   regenerated |-> TRUE, survivors |-> Len(cleaned_posts),
                   dropped |-> dropped, regen_segments |-> <<>>, posts |-> <<>>]
             ELSE [raised |-> FALSE, calls |-> 2, window |-> recent[2],
                   regenerated |-> TRUE, survivors |-> Len(cleaned_posts),
                   dropped |-> dropped,
                   regen_segments |-> regen_reply.segments,
                   posts |-> clean_posts(regen_reply.segments, recent[2], FALSE)]

\* artifacts held by the two sinks together (the CSV header is no artifact)
Stored == Len(nocodb) + (IF csv = <<>> THEN 0 ELSE Len(csv) - 1)

\* the second chat completion is made only on the regeneration path
RegenReplies(recent, reply) ==
    IF ~reply.raised /\ regenerate(clean_posts(reply.segments, recent[2], TRUE), recent[2])
    THEN Replies ELSE {Raise}

\* line 217: what _get_recent_posts returns to this processor
RecentPosts(p) == {get_recent_posts(run[p].cfg, nocodb, fetch_ok) : fetch_ok \in BOOLEAN}

\* the outcomes of line 552 for this processor: what _generate_linkedin_posts
\* does on each window read and each reply of the generation service
Generations(p) ==
    UNION { UNION { {generate_linkedin_posts(recent, reply, regen_reply) :
                        regen_reply \in RegenReplies(recent, reply)} :
                    reply \in Replies } :
            recent \in RecentPosts(p) }

\* mutant: a figure without posts is passed over, unmarked
GenerateOk_skipping_empty(p) ==
    /\ run[p].pc = "generate"
    /\ \E g \in Generations(p) :
           /\ ~g.raised
           /\ Stored + Len(g.posts) <= MaxStored
           /\ LET logged == [run[p] EXCEPT
                                !.log = Append(@, [op |-> "generate", idx |-> Head(run[p].todo),
                                                   calls |-> g.calls, window |-> g.window,
                                                   regenerated |-> g.regenerated,
                                                   survivors |-> g.survivors,
                                                   dropped |-> g.dropped,
                                                   regen_segments |-> g.regen_segments,
                                                   posts |-> g.posts])]
                  skipped == [logged EXCEPT !.todo = Tail(@)]
              IN  run' = [run EXCEPT ![p] =
                            IF g.posts # <<>>
                            THEN [logged EXCEPT !.pc = "store", !.posts = g.posts]
                            ELSE IF skipped.todo = <<>> THEN Finish(skipped, "returned")
                            ELSE [skipped EXCEPT !.pc = "analyze"]]
           /\ deliveredRuns' = IF g.posts = <<>>
                                THEN [deliveredRuns EXCEPT ![Head(run[p].todo)] =
                                          @ \cup {run[p].id}]
                                ELSE deliveredRuns
    /\ UNCHANGED <<ledger, nocodb, csv, image_dir, runs, committedRuns, gate, query, assets, cli, call>>

\* line 552: _generate_linkedin_posts returns its posts
GenerateOk(p) ==
    /\ run[p].pc = "generate"
    /\ \E g \in Generations(p) :
           /\ ~g.raised
           /\ Stored + Len(g.posts) <= MaxStored
           /\ run' = [run EXCEPT ![p] =
                [@ EXCEPT !.pc = "store", !.posts = g.posts,
                          !.log = Append(@, [op |-> "generate", idx |-> Head(run[p].todo),
                                             calls |-> g.calls, window |-> g.window,
                                             regenerated |-> g.regenerated,
                                             survivors |-> g.survivors,
                                             dropped |-> g.dropped,
                                             regen_segments |-> g.regen_segments,
                                             posts |-> g.posts])]]
           /\ deliveredRuns' = IF g.posts = <<>>
                                THEN [deliveredRuns EXCEPT ![Head(run[p].todo)] =
                                          @ \cup {run[p].id}]
                                ELSE deliveredRuns
    /\ UNCHANGED <<ledger, nocodb, csv, image_dir, runs, committedRuns, gate, query, assets, cli, call>>

\* line 552: a chat completion of _generate_linkedin_posts raises
GenerateFail(p) ==
    /\ run[p].pc = "generate"
    /\ \E g \in Generations(p) :
           /\ g.raised
           /\ run' = [run EXCEPT ![p] =
                Finish([@ EXCEPT !.log = Append(@, [op |-> "generate_failed",
                                                    idx |-> Head(run[p].todo),
                                                    calls |-> g.calls,
                                                    window |-> g.window,
                                                    survivors |-> g.survivors,
                                                    dropped |-> g.dropped])],
                       "raised")]
    /\ UNCHANGED <<ledger, nocodb, csv, image_dir, runs, committedRuns, deliveredRuns, gate, query, assets, cli, call>>

\* json.dumps(image_analysis)
json_dumps(image_analysis) == <<"json", image_analysis>>

\* _store_in_nocodb (lines 419-479) for one post: where the post ends up
\* ("nocodb", "csv", or "raised" when the TypeError escapes), and whether the
\* upload and the record write were attempted
store_in_nocodb(cfg, image_analysis, upload_ok, write_ok) ==
    IF ~(ConfigKeys \subseteq cfg)
    THEN [sink |-> "csv", upload |-> FALSE, write |-> FALSE]
    ELSE IF ~upload_ok
    THEN [sink |-> "csv", upload |-> TRUE, write |-> FALSE]
    ELSE IF DescriptionRaises(image_analysis)
    THEN [sink |-> "raised", upload |-> TRUE, write |-> FALSE]
    ELSE IF write_ok
    THEN [sink |-> "nocodb", upload |-> TRUE, write |-> TRUE]
    ELSE [sink |-> "csv", upload |-> TRUE, write |-> TRUE]

\* lines 555-561: one iteration of "for post in posts", _store_in_nocodb returns
Store(p, upload_ok, write_ok) ==
    /\ run[p].pc = "store"
    /\ run[p].posts # <<>>
    /\ LET post == Head(run[p].posts)
           image_index == Head(run[p].todo)
           image_path == image_dir[image_index + 1]
           s == store_in_nocodb(run[p].cfg, run[p].image_analysis, upload_ok, write_ok)
       IN  /\ s.sink # "raised"
           /\ nocodb' = IF s.sink = "nocodb"
                        THEN Append(nocodb, [post |-> post, image_index |-> image_index,
                                             image_filename |-> image_path[2]])
                        ELSE nocodb
           /\ csv' = IF s.sink = "csv"
                     THEN save_to_csv(csv, post, image_path,
                                      json_dumps(run[p].image_analysis), image_index)
                     ELSE csv
           /\ run' = [run EXCEPT ![p] =
                [@ EXCEPT !.posts = Tail(@),
                          !.log = Append(@, [op |-> "commit", idx |-> image_index,
                                             post |-> post, sink |-> s.sink])]]
           /\ committedRuns' = [committedRuns EXCEPT ![image_index] = @ \cup {run[p].id}]
           /\ deliveredRuns' = IF Tail(run[p].posts) = <<>>
                                THEN [deliveredRuns EXCEPT ![image_index] = @ \cup {run[p].id}]
                                ELSE deliveredRuns
    /\ UNCHANGED <<ledger, image_dir, runs, gate, query, assets, cli, call>>

\* lines 555-561: _store_in_nocodb raises, the exception leaves process()
StoreRaise(p, upload_ok, write_ok) ==
    /\ run[p].pc = "store"
    /\ run[p].posts # <<>>
    /\ LET s == store_in_nocodb(run[p].cfg, run[p].image_analysis, upload_ok, write_ok)
       IN  /\ s.sink = "raised"
           /\ run' = [run EXCEPT ![p] =
                Finish([@ EXCEPT !.log = Append(@, [op |-> "commit_failed",
                                                    idx |-> Head(run[p].todo),
                                                    post |-> Head(run[p].posts)])],
                       "raised")]
    /\ UNCHANGED <<ledger, nocodb, csv, image_dir, runs, committedRuns, deliveredRuns, gate, query, assets, cli, call>>

\* mutant: _mark_processed inside "for post in posts", before the posts are stored
Mark_early(p, timestamp) ==
    /\ run[p].pc = "store"
    /\ timestamp >= LatestTimestamp(ledger)
    /\ LET image_index == Head(run[p].todo)
           marked == [run[p] EXCEPT !.todo = Tail(@), !.posts = <<>>,
                                    !.log = Append(@, [op |-> "mark", idx |-> image_index])]
       IN  /\ ledger' = mark_processed(ledger, run[p].pdf_hash, image_index, timestamp)
           /\ run' = [run EXCEPT ![p] =
                IF run[p].test_mode THEN Finish(marked, "returned")
                ELSE IF marked.todo = <<>> THEN Finish(marked, "returned")
                ELSE [marked EXCEPT !.pc = "analyze"]]
    /\ UNCHANGED <<nocodb, csv, image_dir, runs, committedRuns, deliveredRuns, gate, query, assets, cli, call>>

\* lines 563-568: _mark_processed, then the next image, or the end of the run
Mark(p, timestamp) ==
    /\ run[p].pc = "store"
    /\ run[p].posts = <<>>
    /\ timestamp >= LatestTimestamp(ledger)
    /\ LET image_index == Head(run[p].todo)
           marked == [run[p] EXCEPT !.todo = Tail(@),
                                    !.log = Append(@, [op |-> "mark", idx |-> image_index])]
       IN  /\ ledger' = mark_processed(ledger, run[p].pdf_hash, image_index, timestamp)
           /\ run' = [run EXCEPT ![p] =
                IF run[p].test_mode THEN Finish(marked, "returned")
                ELSE IF marked.todo = <<>> THEN Finish(marked, "returned")
                ELSE [marked EXCEPT !.pc = "analyze"]]
    /\ UNCHANGED <<nocodb, csv, image_dir, runs, committedRuns, deliveredRuns, gate, query, assets, cli, call>>

Next ==
    \/ \E p \in SerialProcs, cfg \in Configs, test_mode \in BOOLEAN, convert_ok \in BOOLEAN :
          StartRun(p, cfg, test_mode, convert_ok)
    \/ \E p \in SerialProcs, reply \in AnalysisReplies : AnalyzeOk(p, reply)
    \/ \E p \in SerialProcs : AnalyzeFail(p)
    \/ \E p \in SerialProcs : GenerateOk(p)
    \/ \E p \in SerialProcs : GenerateFail(p)
    \/ \E p \in SerialProcs, upload_ok \in BOOLEAN, write_ok \in BOOLEAN :
          Store(p, upload_ok, write_ok)
    \/ \E p \in SerialProcs, upload_ok \in BOOLEAN, write_ok \in BOOLEAN :
          StoreRaise(p, upload_ok, write_ok)
    \/ \E p \in SerialProcs, timestamp \in Timestamps : Mark(p, timestamp)

Spec == Init /\ [][Next]_vars

(* ------------------- the similarity gate on its own -------------------- *)
\* length of the candidate text, of a window entry, and of the window
MaxTextLen == 3
MaxRecentLen == 2
MaxWindow == 2

GateChars == {"a", "A", "b", " "}

Texts(n) == UNION {[1..k -> GateChars] : k \in 0..n}

\* thresholds a caller may pass: 1/2, the gate's 0.6 and the default 0.7
Thresholds == { <<1, 2>>, GateThreshold, DefaultThreshold }

InitGate ==
    /\ \E new_post \in Texts(MaxTextLen), threshold \in Thresholds :
          gate = [NoCall EXCEPT !.new_post = new_post, !.threshold = threshold]
    /\ query = NoQuery
    /\ assets = NoAssets
    /\ cli = NoCli
    /\ call = NoOperation
    /\ ledger = {}
    /\ nocodb = <<>>
    /\ csv = <<>>
    /\ image_dir = <<>>
    /\ run = [p \in Procs |-> IdleRun]
    /\ runs = 0
    /\ committedRuns = [i \in FigureIndices |-> {}]
    /\ deliveredRuns = [i \in FigureIndices |-> {}]

\* the caller puts one more post into the window
AddRecent(recent_post) ==
    /\ ~gate.returned
    /\ Len(gate.recent_posts) < MaxWindow
    /\ gate' = [gate EXCEPT !.recent_posts = Append(@, recent_post)]
    /\ UNCHANGED <<pipeline, query, assets, cli, call>>

\* lines 159-178
CheckSimilarity ==
    /\ ~gate.returned
    /\ gate' = [gate EXCEPT !.returned = TRUE,
                            !.result = check_content_similarity(gate.new_post,
                                           gate.recent_posts, gate.threshold)]
    /\ UNCHANGED <<pipeline, query, assets, cli, call>>

NextGate ==
    \/ \E recent_post \in Texts(MaxRecentLen) : AddRecent(recent_post)
    \/ CheckSimilarity

SpecGate == InitGate /\ [][NextGate]_vars

(* ------------------------------- main() -------------------------------- *)
\* required_vars of main()
RequiredVars == {"OPENAI_API_KEY", "NOCODB_API_KEY", "NOCODB_BASE_URL",
                 "NOCODB_TABLE_ID", "NOCODB_BASE_ID"}

\* the variables that are set (to a non-empty value) when main() starts: all
\* of them, all but one, or none
Environments ==
    {RequiredVars, {}} \cup {RequiredVars \ {var} : var \in RequiredVars}

\* the os.getenv calls of __init__, lines 47-50
EnvVar(key) ==
    CASE key = "base_url" -> "NOCODB_BASE_URL"
      [] key = "api_key" -> "NOCODB_API_KEY"
      [] key = "table_id" -> "NOCODB_TABLE_ID"
      [] key = "base_id" -> "NOCODB_BASE_ID"

getenv_config(env) == {key \in ConfigKeys : EnvVar(key) \in env}

\* mutant: the processor is constructed before the environment is checked
Main_checking_late(p, env, test_mode, convert_ok) ==
    /\ cli.starts < MaxRuns
    /\ run[p].pc = "idle"
    /\ IF RequiredVars \ env # {}
       THEN /\ cli' = [env |-> env, status |-> "exit_1", db_created |-> TRUE,
                       starts |-> cli.starts + 1]
            /\ UNCHANGED <<pipeline, gate, query, assets, call>>
       ELSE /\ construct_and_process(p, getenv_config(env), test_mode, convert_ok)
            /\ cli' = [env |-> env, status |-> "started", db_created |-> TRUE,
                       starts |-> cli.starts + 1]

\* main(): sys.exit(1) when a required variable is missing, else
\* WhitepaperProcessor(pdf, nocodb_table, test).process()
Main(p, env, test_mode, convert_ok) ==
    /\ cli.starts < MaxRuns
    /\ run[p].pc = "idle"
    /\ LET missing_vars == RequiredVars \ env
       IN  IF missing_vars # {}
           THEN /\ cli' = [cli EXCEPT !.env = env, !.status = "exit_1",
                                      !.starts = @ + 1]
                /\ UNCHANGED <<pipeline, gate, query, assets, call>>
           ELSE /\ construct_and_process(p, getenv_config(env), test_mode, convert_ok)
                /\ cli' = [env |-> env, status |-> "started", db_created |-> TRUE,
                           starts |-> cli.starts + 1]

NextMain ==
    \/ \E p \in SerialProcs, env \in Environments, test_mode \in BOOLEAN,
          convert_ok \in BOOLEAN :
          Main(p, env, test_mode, convert_ok)
    \/ \E p \in SerialProcs, reply \in AnalysisReplies : AnalyzeOk(p, reply)
    \/ \E p \in SerialProcs : AnalyzeFail(p)
    \/ \E p \in SerialProcs : GenerateOk(p)
    \/ \E p \in SerialProcs : GenerateFail(p)
    \/ \E p \in SerialProcs, upload_ok \in BOOLEAN, write_ok \in BOOLEAN :
          Store(p, upload_ok, write_ok)
    \/ \E p \in SerialProcs, upload_ok \in BOOLEAN, write_ok \in BOOLEAN :
          StoreRaise(p, upload_ok, write_ok)
    \/ \E p \in SerialProcs, timestamp \in Timestamps : Mark(p, timestamp)

SpecMain == Init /\ [][NextMain]_vars

(* ------------------------- the ledger on its own ----------------------- *)
\* largest image index marked, latest clock value, number of marking calls
MaxIndex == 2
MaxLedgerClock == 1
MaxMarks == 3

\* the documents whose records share state.db
Documents == {PdfBytes, "another whitepaper"}

InitLedger ==
    /\ gate = NoCall
    /\ query = NoQuery
    /\ assets = NoAssets
    /\ cli = NoCli
    /\ call = NoOperation
    /\ ledger = {}
    /\ nocodb = <<>>
    /\ csv = <<>>
    /\ image_dir = <<>>
    /\ run = [p \in Procs |-> IdleRun]
    /\ runs = 0
    /\ committedRuns = [i \in FigureIndices |-> {}]
    /\ deliveredRuns = [i \in FigureIndices |-> {}]

\* lines 494-503
MarkProcessed(pdf_bytes, image_index, timestamp) ==
    /\ query.marks < MaxMarks
    /\ timestamp >= LatestTimestamp(ledger)
    /\ LET pdf_hash == get_pdf_hash(pdf_bytes)
       IN  /\ ledger' = mark_processed(ledger, pdf_hash, image_index, timestamp)
           /\ query' = [op |-> "mark", pdf_hash |-> pdf_hash, image_index |-> image_index,
                        total_images |-> -1,
                        present |-> \E r \in ledger : /\ r.pdf_sha256 = pdf_hash
                                                       /\ r.image_index = image_index,
                        result |-> <<>>, marks |-> query.marks + 1]
    /\ UNCHANGED <<nocodb, csv, image_dir, run, runs, committedRuns, deliveredRuns,
                   gate, assets, cli, call>>

\* lines 505-516
GetUnprocessedImages(pdf_bytes, total_images) ==
    /\ LET pdf_hash == get_pdf_hash(pdf_bytes)
       IN  query' = [query EXCEPT !.op = "unprocessed", !.pdf_hash = pdf_hash,
                                  !.image_index = -1, !.total_images = total_images,
                                  !.present = FALSE,
                                  !.result = get_unprocessed_images(ledger, pdf_hash,
                                                                    total_images)]
    /\ UNCHANGED <<pipeline, gate, assets, cli, call>>

NextLedger ==
    \/ \E pdf_bytes \in Documents, image_index \in 0..MaxIndex,
          timestamp \in 0..MaxLedgerClock :
          MarkProcessed(pdf_bytes, image_index, timestamp)
    \/ \E pdf_bytes \in Documents, total_images \in 0..(MaxIndex + 1) :
          GetUnprocessedImages(pdf_bytes, total_images)

SpecLedger == InitLedger /\ [][NextLedger]_vars

(* --------------------- _extract_images on its own ---------------------- *)
\* number of calls of _extract_images over the directory
MaxExtractCalls == 2

\* "Filter images >300px wide"
MinWidth == 300

\* ord() of the characters of the modelled file names
Ord(c) ==
    CASE c = "-" -> 45 [] c = "." -> 46
      [] c = "0" -> 48 [] c = "1" -> 49 [] c = "2" -> 50 [] c = "3" -> 51
      [] c = "a" -> 97 [] c = "e" -> 101 [] c = "g" -> 103 [] c = "i" -> 105
      [] c = "j" -> 106 [] c = "m" -> 109 [] c = "n" -> 110 [] c = "p" -> 112
      [] c = "s" -> 115

GlobPrefix == <<"i", "m", "a", "g", "e", "s", "-">>
GlobSuffix == <<".", "p", "n", "g">>
JpgSuffix == <<".", "j", "p", "g">>

\* file names a directory may hold: images-0.png, images-1.png, images-10.png,
\* images-2.png, images-3.png and images-0.jpg
FileNames ==
    {GlobPrefix \o middle \o GlobSuffix :
        middle \in { <<"0">>, <<"1">>, <<"1", "0">>, <<"2">>, <<"3">> }}
    \cup {GlobPrefix \o <<"0">> \o JpgSuffix}

\* a file: readable is whether Image.open succeeds, width is img.width
Files == [name : FileNames, readable : BOOLEAN, width : {MinWidth, MinWidth + 1}]

\* images_dir.glob("images-*.png"), for one name
glob_match(name) ==
    /\ Len(name) >= Len(GlobPrefix) + Len(GlobSuffix)
    /\ SubSeq(name, 1, Len(GlobPrefix)) = GlobPrefix
    /\ SubSeq(name, Len(name) - Len(GlobSuffix) + 1, Len(name)) = GlobSuffix

RECURSIVE path_lt(_, _)
\* a < b for two paths of the directory, as list.sort() compares them
path_lt(a, b) ==
    IF b = <<>> THEN FALSE
    ELSE IF a = <<>> THEN TRUE
    ELSE IF Ord(Head(a)) < Ord(Head(b)) THEN TRUE
    ELSE IF Ord(Head(a)) > Ord(Head(b)) THEN FALSE
    ELSE path_lt(Tail(a), Tail(b))

RECURSIVE sort_files(_)
\* image_files.sort()
sort_files(files) ==
    IF files = {} THEN <<>>
    ELSE LET least == CHOOSE f \in files :
                          \A g \in files : g = f \/ path_lt(f.name, g.name)
         IN  <<least>> \o sort_files(files \ {least})

RECURSIVE valid_images_at_least(_)
\* mutant: img.width >= 300
valid_images_at_least(image_files) ==
    IF image_files = <<>> THEN <<>>
    ELSE (IF Head(image_files).readable /\ Head(image_files).width >= MinWidth
          THEN <<Head(image_files).name>> ELSE <<>>)
         \o valid_images_at_least(Tail(image_files))

RECURSIVE valid_images(_)
\* lines 110-118: the loop over image_files; a file that cannot be opened is
\* passed over
valid_images(image_files) ==
    IF image_files = <<>> THEN <<>>
    ELSE (IF Head(image_files).readable /\ Head(image_files).width > MinWidth
          THEN <<Head(image_files).name>> ELSE <<>>)
         \o valid_images(Tail(image_files))

\* _extract_images
extract_images(dir) ==
    IF ~dir.exists THEN <<>>
    ELSE valid_images(sort_files({f \in dir.files : glob_match(f.name)}))

InitExtract ==
    /\ gate = NoCall
    /\ query = NoQuery
    /\ \E exists \in BOOLEAN : assets = [NoAssets EXCEPT !.exists = exists]
    /\ cli = NoCli
    /\ call = NoOperation
    /\ ledger = {}
    /\ nocodb = <<>>
    /\ csv = <<>>
    /\ image_dir = <<>>
    /\ run = [p \in Procs |-> IdleRun]
    /\ runs = 0
    /\ committedRuns = [i \in FigureIndices |-> {}]
    /\ deliveredRuns = [i \in FigureIndices |-> {}]

\* the conversion writes one more file into the directory
AddAsset(file) ==
    /\ assets.exists
    /\ assets.returned = <<>>
    /\ \A f \in assets.files : f.name # file.name
    /\ assets' = [assets EXCEPT !.files = @ \cup {file}]
    /\ UNCHANGED <<pipeline, gate, query, cli, call>>

\* lines 100-120
ExtractImages ==
    /\ Len(assets.returned) < MaxExtractCalls
    /\ assets' = [assets EXCEPT !.returned = Append(@, extract_images(assets))]
    /\ UNCHANGED <<pipeline, gate, query, cli, call>>

NextExtract ==
    \/ \E file \in Files : AddAsset(file)
    \/ ExtractImages

SpecExtract == InitExtract /\ [][NextExtract]_vars

(* ------------------- _store_in_nocodb on its own ------------------------ *)
\* the environments a processor can be constructed in: any of the four values
\* may be unset (lines 47-50)
AnyConfigs == SUBSET ConfigKeys

\* what _analyze_image can hand to the commit
Analyses == {analyze_image(reply) : reply \in AnalysisReplies}

\* the posts handed to a commit on its own
StorePosts == {<<"a">>}

\* mutant: the record is written whether or not the upload returned a file
store_requests_ignoring_upload(cfg, image_analysis, upload_ok, write_ok) ==
    IF ~(ConfigKeys \subseteq cfg) THEN <<>>
    ELSE IF DescriptionRaises(image_analysis) THEN <<"upload">>
    ELSE <<"upload", "write">>

\* the HTTP requests _store_in_nocodb makes, in order: the early return of
\* lines 421-424, the upload of line 427 with the return of lines 429-431, the
\* description of lines 439-458, the record write of line 474
store_requests(cfg, image_analysis, upload_ok, write_ok) ==
    IF ~(ConfigKeys \subseteq cfg) THEN <<>>
    ELSE IF ~upload_ok THEN <<"upload">>
    ELSE IF DescriptionRaises(image_analysis) THEN <<"upload">>
    ELSE <<"upload", "write">>

\* one call of _store_in_nocodb for a post of figure 0
StoreInNocodb(cfg, image_analysis, post, upload_ok, write_ok) ==
    /\ image_dir # <<>>
    /\ Stored < MaxStored
    /\ LET image_index == 0
           image_path == image_dir[image_index + 1]
           s == store_in_nocodb(cfg, image_analysis, upload_ok, write_ok)
       IN  /\ nocodb' = IF s.sink = "nocodb"
                        THEN Append(nocodb, [post |-> post, image_index |-> image_index,
                                             image_filename |-> image_path[2]])
                        ELSE nocodb
           /\ csv' = IF s.sink = "csv"
                     THEN save_to_csv(csv, post, image_path,
                                      json_dumps(image_analysis), image_index)
                     ELSE csv
           /\ call' = [op |-> "store_in_nocodb",
                       args |-> [cfg |-> cfg, image_analysis |-> image_analysis,
                                 post |-> post,
                                 upload_ok |-> upload_ok, write_ok |-> write_ok],
                       result |-> [sink |-> s.sink,
                                   requests |-> store_requests(cfg, image_analysis,
                                                               upload_ok, write_ok),
                                   nocodb |-> Len(nocodb'), csv |-> Len(csv')]]
    /\ UNCHANGED <<ledger, image_dir, run, runs, committedRuns, deliveredRuns,
                   gate, query, assets, cli>>

NextStore ==
    \E cfg \in AnyConfigs, image_analysis \in Analyses, post \in StorePosts,
       upload_ok \in BOOLEAN, write_ok \in BOOLEAN :
        StoreInNocodb(cfg, image_analysis, post, upload_ok, write_ok)

SpecStore == Init /\ [][NextStore]_vars

(* --------------- _generate_linkedin_posts on its own -------------------- *)
\* a post of 21 words whose first 20 words are one word repeated
LongWords == [i \in 1..(IntroWords + 1) |-> IF i <= IntroWords THEN <<"a">> ELSE <<"b">>]

LongPost == JoinWords(LongWords)

\* the posts the NocoDB table can hold when a generation starts
StoredPosts == {<<"a">>, LongPost}

\* the NocoDB table as earlier runs and other documents left it
StoredTables ==
    {[i \in 1..Len(q) |-> [post |-> q[i], image_index |-> 0,
                            image_filename |-> ImageName(0)[2]]] :
        q \in SeqsUpTo(StoredPosts, MaxWindow)}

InitGenerate ==
    /\ gate = NoCall
    /\ query = NoQuery
    /\ assets = NoAssets
    /\ cli = NoCli
    /\ call = NoOperation
    /\ ledger = {}
    /\ nocodb \in StoredTables
    /\ csv = <<>>
    /\ image_dir = <<ImageName(0)>>
    /\ run = [p \in Procs |-> IdleRun]
    /\ runs = 0
    /\ committedRuns = [i \in FigureIndices |-> {}]
    /\ deliveredRuns = [i \in FigureIndices |-> {}]

\* one call of _generate_linkedin_posts: the window read of line 217, the
\* first completion, and the second one on the regeneration path
GenerateLinkedinPosts(cfg, fetch_ok, reply) ==
    /\ call.op = "none"
    /\ LET recent == get_recent_posts(cfg, nocodb, fetch_ok)
           regen_replies ==
               IF ~reply.raised
                  /\ regenerate(clean_posts(reply.segments, recent[2], TRUE), recent[2])
               THEN Replies ELSE {Raise}
       IN  \E regen_reply \in regen_replies :
               call' = [op |-> "generate_linkedin_posts",
                        args |-> [cfg |-> cfg, fetch_ok |-> fetch_ok,
                                  reply |-> reply, regen_reply |-> regen_reply],
                        result |-> [recent_intros |-> recent[1],
                                    generation |-> generate_linkedin_posts(recent, reply,
                                                                           regen_reply)]]
    /\ UNCHANGED <<pipeline, gate, query, assets, cli>>

NextGenerate ==
    \E cfg \in Configs, fetch_ok \in BOOLEAN, reply \in Replies :
        GenerateLinkedinPosts(cfg, fetch_ok, reply)

SpecGenerate == InitGenerate /\ [][NextGenerate]_vars

(* ------------------------ tone selection on its own --------------------- *)
\* lines 233-242
corporate_tones == <<"analytical_professional", "data_storytelling", "industry_expert">>

conversational_tones == <<"conversational_insights", "practical_takeaways">>

\* random.random() in tenths: the value k stands for k/10
RandomValues == 0..9

\* "random.random() < 0.6", in tenths
CorporateWeight == 6

\* "for _ in range(2)"
NumTones == 2

\* lines 250-253: the pool one draw of random.random() selects
tone_pool(u) == IF u < CorporateWeight THEN corporate_tones ELSE conversational_tones

\* one iteration of the loop of lines 249-253: random.random() returned u/10
\* and random.choice the pick-th tone of the pool
SelectTone(u, pick) ==
    /\ call.op \in {"none", "select_tones"}
    /\ pick \in 1..Len(tone_pool(u))
    /\ LET draws == IF call.op = "none" THEN <<>> ELSE call.args
           selected_tones == IF call.op = "none" THEN <<>> ELSE call.result
       IN  /\ Len(selected_tones) < NumTones
           /\ call' = [op |-> "select_tones",
                       args |-> Append(draws, <<u, pick>>),
                       result |-> Append(selected_tones, tone_pool(u)[pick])]
    /\ UNCHANGED <<pipeline, gate, query, assets, cli>>

NextTones ==
    \E u \in RandomValues, pick \in 1..Len(corporate_tones) : SelectTone(u, pick)

SpecTones == Init /\ [][NextTones]_vars

(* ---------------------- two processes, interleaved ---------------------- *)
\* Two invocations of the tool on the same document, state.db and table, their
\* steps interleaved in any order.  To keep the product of two runs small the
\* invocations are test-mode runs with all NocoDB values set, and a generation
\* hands at most one post to the commit; every failure of a collaborator
\* remains possible.
NextConcurrent ==
    \/ \E p \in Procs, convert_ok \in BOOLEAN : StartRun(p, ConfigKeys, TRUE, convert_ok)
    \/ \E p \in Procs, reply \in AnalysisReplies : AnalyzeOk(p, reply)
    \/ \E p \in Procs : AnalyzeFail(p)
    \/ \E p \in Procs : GenerateOk(p) /\ Len(run'[p].posts) <= 1
    \/ \E p \in Procs : GenerateFail(p)
    \/ \E p \in Procs, upload_ok \in BOOLEAN, write_ok \in BOOLEAN :
          Store(p, upload_ok, write_ok)
    \/ \E p \in Procs, upload_ok \in BOOLEAN, write_ok \in BOOLEAN :
          StoreRaise(p, upload_ok, write_ok)
    \/ \E p \in Procs, timestamp \in Timestamps : Mark(p, timestamp)

SpecConcurrent == Init /\ [][NextConcurrent]_vars

(* ------------------------------ properties ----------------------------- *)
\* the ledger says figure i of the document is processed
HasRecord(i) ==
    \E r \in ledger : /\ r.pdf_sha256 = get_pdf_hash(PdfBytes)
                      /\ r.image_index = i
                      /\ r.processed

\* the data rows of the CSV file
CsvRows(file) == IF file = <<>> THEN <<>> ELSE Tail(file)

\* some artifact of figure i is in the primary store or in the CSV file
ArtifactStored(i) ==
    \/ \E k \in 1..Len(nocodb) : nocodb[k].image_index = i
    \/ \E k \in 1..Len(CsvRows(csv)) : CsvRows(csv)[k].image_index = i

ConfigComplete(cfg) == ConfigKeys \subseteq cfg

\* C1 as stated: a run that follows another run over the same document and
\* assets performs no analysis, no generation, no commit and no mark_processed
\* (taken here for a first run that returned normally, the case most in the
\* claim's favour).
C1_AnySecondRunDoesNothing ==
    \A p \in Procs :
        (run[p].id >= 2 /\ run[p].prev.outcome = "returned") => run[p].log = <<>>

\* C1 amended: a run that follows a normal-mode run which returned normally
\* ends at once and performs no analysis, no generation, no commit and no
\* mark_processed; both sinks keep the size they had when it began.
C1_RunAfterCompletedRunDoesNothing ==
    \A p \in Procs :
        (run[p].prev.outcome = "returned" /\ ~run[p].prev.test_mode)
        => /\ run[p].pc = "idle"
           /\ run[p].log = <<>>
           /\ Len(nocodb) = run[p].base.nocodb
           /\ Len(csv) = run[p].base.csv

C1_Witness ==
    \E p \in Procs :
        /\ run[p].id = 2
        /\ run[p].prev.outcome = "returned" /\ ~run[p].prev.test_mode
        /\ run[p].outcome = "returned"
        /\ Len(image_dir) = NumFigures
        /\ \A i \in FigureIndices : HasRecord(i)

\* C2: a failure of analysis or generation for one figure does not abort the
\* batch: no exception leaves process(), and a run that has ended has gone
\* through all the images it had to process.
C2_FailureDoesNotAbortBatch ==
    \A p \in Procs :
        run[p].pc = "idle" => (run[p].outcome # "raised" /\ run[p].todo = <<>>)

\* C3: when the analysis call or a generation call fails for figure i, the run
\* does not mark i, the ledger holds no processed record of i, and i is in the
\* unprocessed set, also in the one the next run computes.
C3_FailedFigureStaysUnprocessed ==
    \A p \in Procs :
        /\ (run[p].outcome = "raised"
            /\ run[p].log[Len(run[p].log)].op \in {"analyze_failed", "generate_failed"})
           => LET i == run[p].log[Len(run[p].log)].idx
              IN  /\ \A k \in 1..Len(run[p].log) :
                        ~(run[p].log[k].op = "mark" /\ run[p].log[k].idx = i)
                  /\ ~HasRecord(i)
                  /\ i \in Range(get_unprocessed_images(ledger, run[p].pdf_hash,
                                                        Len(image_dir)))
        /\ (run[p].prev.failed_op \in {"analyze_failed", "generate_failed"}
            /\ run[p].outcome # "exited")
           => run[p].prev.failed_idx \in Range(run[p].unprocessed)

C3_Witness ==
    \E p \in Procs :
        /\ run[p].prev.failed_op = "generate_failed"
        /\ run[p].prev.failed_idx = 1
        /\ HasRecord(0)
        /\ run[p].unprocessed = <<1>>
        /\ run[p].pc = "generate"

\* C4: no figure is processed twice: artifacts of one figure index are
\* committed in at most one run.
C4_NoFigureCommittedInTwoRuns ==
    \A i \in FigureIndices : Cardinality(committedRuns[i]) <= 1

\* C5 as stated: a processed record of figure i exists only if an artifact of
\* figure i is in the primary store or in the CSV file.
C5_MarkedImpliesArtifactStored ==
    \A i \in FigureIndices : HasRecord(i) => ArtifactStored(i)

\* C5 amended: a processed record of figure i exists only if, in some run,
\* generation for figure i returned and every post it returned was written to
\* the primary store or the CSV file; when it returned no post, no artifact
\* need exist.
C5_MarkedImpliesDelivered ==
    \A i \in FigureIndices :
        HasRecord(i) => /\ deliveredRuns[i] # {}
                        /\ (deliveredRuns[i] \cap committedRuns[i] # {}) => ArtifactStored(i)

C5_Witness ==
    \E i \in FigureIndices :
        /\ HasRecord(i)
        /\ ~ArtifactStored(i)
        /\ deliveredRuns[i] # {}

\* C6: in a run, mark_processed(i) comes only after generation for i returned
\* and each post it returned was handed to _store_in_nocodb, in order; no
\* commit for i follows the mark.
C6_MarkAfterEveryCommit ==
    \A p \in Procs :
        LET log == run[p].log
        IN  \A k \in 1..Len(log) :
                log[k].op = "mark"
                => /\ \E j \in 1..(k - 1) :
                        /\ log[j].op = "generate" /\ log[j].idx = log[k].idx
                        /\ k - j - 1 = Len(log[j].posts)
                        /\ \A m \in (j + 1)..(k - 1) :
                              /\ log[m].op = "commit"
                              /\ log[m].idx = log[k].idx
                              /\ log[m].post = log[j].posts[m - j]
                   /\ \A m \in (k + 1)..Len(log) :
                        ~(log[m].op = "commit" /\ log[m].idx = log[k].idx)

C6_Witness ==
    \E p \in Procs :
        \E k \in 1..Len(run[p].log) :
            /\ run[p].log[k].op = "mark"
            /\ k >= 4
            /\ run[p].log[k - 3].op = "generate"
            /\ Len(run[p].log[k - 3].posts) = 2
            /\ Len(run[p].log) > k

\* C7: every call of _store_in_nocodb returns without raising and leaves the
\* post in exactly one sink; in the CSV file when the configuration is
\* incomplete, in the primary store only when it is complete.
C7_CommitLandsInOneSink ==
    [][\A p \in Procs :
          (run[p].pc = "store" /\ run[p].posts # <<>> /\ run'[p] # run[p])
          => LET post == Head(run[p].posts)
                 inNocodb == /\ Len(nocodb') = Len(nocodb) + 1
                             /\ nocodb' = Append(nocodb, nocodb'[Len(nocodb')])
                             /\ nocodb'[Len(nocodb')].post = post
                             /\ csv' = csv
                 inCsv == /\ Len(CsvRows(csv')) = Len(CsvRows(csv)) + 1
                          /\ CsvRows(csv') = Append(CsvRows(csv), csv'[Len(csv')])
                          /\ csv'[Len(csv')].post = post
                          /\ nocodb' = nocodb
             IN  /\ run'[p].outcome # "raised"
                 /\ inNocodb \/ inCsv
                 /\ inNocodb => ConfigComplete(run[p].cfg)
                 /\ ~ConfigComplete(run[p].cfg) => inCsv]_vars

RECURSIVE ReturnedArtifacts(_)
\* the posts generation has returned in a run, each with its figure index
ReturnedArtifacts(log) ==
    IF log = <<>> THEN <<>>
    ELSE (IF Head(log).op = "generate"
          THEN [k \in 1..Len(Head(log).posts) |->
                    [post |-> Head(log).posts[k], image_index |-> Head(log).idx]]
          ELSE <<>>)
         \o ReturnedArtifacts(Tail(log))

\* the rows a run has added to the CSV file, as post and figure index
AddedRows(r) ==
    LET rows == CsvRows(csv)
        before == IF r.base.csv = 0 THEN 0 ELSE r.base.csv - 1
    IN  [k \in 1..(Len(rows) - before) |->
            [post |-> rows[before + k].post, image_index |-> rows[before + k].image_index]]

\* C8: in a run whose primary-sink configuration is incomplete, the rows added
\* to the CSV file are exactly the posts generation returned, each once, in
\* order, with the same text (the posts still to be stored excepted, and none
\* is left when the run has ended); nothing is written to the primary store.
C8_IncompleteConfigAllInCsv ==
    \A p \in Procs :
        (run[p].outcome # "none" /\ ~ConfigComplete(run[p].cfg))
        => /\ Len(nocodb) = run[p].base.nocodb
           /\ AddedRows(run[p])
                 \o [k \in 1..Len(run[p].posts) |->
                        [post |-> run[p].posts[k], image_index |-> Head(run[p].todo)]]
              = ReturnedArtifacts(run[p].log)
           /\ run[p].pc = "idle" => run[p].posts = <<>>

C8_Witness ==
    \E p \in Procs :
        /\ ~ConfigComplete(run[p].cfg)
        /\ run[p].outcome = "returned"
        /\ Len(ReturnedArtifacts(run[p].log)) >= 2
        /\ Len(AddedRows(run[p])) >= 2
        /\ run[p].base.csv > 0

(* the word sets of the claims, stated without the code's split *)
IsWordAt(text, i, j) ==
    /\ i <= j
    /\ \A k \in i..j : text[k] # " "
    /\ (i = 1 \/ text[i - 1] = " ")
    /\ (j = Len(text) \/ text[j + 1] = " ")

\* the lowercase whitespace-delimited words of a text
Words(text) ==
    { [k \in 1..(ij[2] - ij[1] + 1) |-> LowerChar(text[ij[1] + k - 1])] :
        ij \in {x \in (1..Len(text)) \X (1..Len(text)) : IsWordAt(text, x[1], x[2])} }

\* Jaccard similarity of the word sets of a and b is defined and above t
JaccardAbove(a, b, t) ==
    /\ Words(a) # {}
    /\ Words(b) # {}
    /\ Cardinality(Words(a) \cap Words(b)) * t[2]
          > t[1] * Cardinality(Words(a) \cup Words(b))

\* C9: _check_content_similarity returns true iff the Jaccard similarity of
\* the candidate and some window entry is strictly above the threshold; false
\* for an empty window, and a pair with an empty word set never counts.
C9_GateIsJaccardAboveThreshold ==
    gate.returned
    => /\ gate.result = (\E k \in 1..Len(gate.recent_posts) :
                            JaccardAbove(gate.new_post, gate.recent_posts[k], gate.threshold))
       /\ gate.recent_posts = <<>> => ~gate.result
       /\ (Words(gate.new_post) = {}
           \/ \A k \in 1..Len(gate.recent_posts) : Words(gate.recent_posts[k]) = {})
          => ~gate.result

\* the second entry decides, at similarity 1/2 < 2/3 and above the threshold 3/5
C9_Witness ==
    /\ gate.returned
    /\ gate.result
    /\ gate.threshold = GateThreshold
    /\ Len(gate.recent_posts) = 2
    /\ ~JaccardAbove(gate.new_post, gate.recent_posts[1], gate.threshold)
    /\ Words(gate.recent_posts[1]) # {}
    /\ gate.new_post # gate.recent_posts[2]

\* C10 as stated: every committed artifact has Jaccard similarity at most the
\* gate threshold against every entry of the window fetched for its figure.
C10_NoCommittedArtifactTooSimilar ==
    \A p \in Procs :
        LET log == run[p].log
        IN  \A j \in 1..Len(log), k \in 1..Len(log) :
                (log[j].op = "generate" /\ log[k].op = "commit" /\ log[j].idx = log[k].idx)
                => \A w \in 1..Len(log[j].window) :
                       ~JaccardAbove(log[k].post, log[j].window[w], GateThreshold)

\* C10 amended: every committed artifact of the initial generation pass has
\* Jaccard similarity at most the gate threshold against every entry of the
\* window fetched for its figure; the posts of the regeneration pass, made
\* when the gate dropped every initial candidate, are committed unchecked.
C10_InitialPassArtifactsNotTooSimilar ==
    \A p \in Procs :
        LET log == run[p].log
        IN  \A j \in 1..Len(log), k \in 1..Len(log) :
                (/\ log[j].op = "generate" /\ log[k].op = "commit"
                 /\ log[j].idx = log[k].idx
                 /\ ~log[j].regenerated)
                => \A w \in 1..Len(log[j].window) :
                       ~JaccardAbove(log[k].post, log[j].window[w], GateThreshold)

C10_Witness ==
    \E p \in Procs :
        \E j \in 1..Len(run[p].log), k \in 1..Len(run[p].log) :
            /\ run[p].log[j].op = "generate" /\ run[p].log[k].op = "commit"
            /\ run[p].log[j].idx = run[p].log[k].idx
            /\ ~run[p].log[j].regenerated
            /\ run[p].log[j].window # <<>>

\* the events of a run's log that are about figure i, between positions j and k
CommitsBetween(log, j, k) ==
    {m \in (j + 1)..(k - 1) : log[m].op = "commit" /\ log[m].idx = log[j].idx}

\* C11 as stated: when the gate drops every initial candidate of a figure, at
\* least one artifact is committed for the figure before it is marked.
C11_AllDroppedStillCommits ==
    \A p \in Procs :
        LET log == run[p].log
        IN  \A j \in 1..Len(log), k \in 1..Len(log) :
                (/\ j < k
                 /\ log[j].op = "generate" /\ log[j].survivors = 0 /\ log[j].dropped >= 1
                 /\ log[k].op = "mark" /\ log[k].idx = log[j].idx)
                => CommitsBetween(log, j, k) # {}

\* C11 amended: when the gate drops every initial candidate of a figure, one
\* regeneration call is made; once the figure is marked, exactly the posts
\* that call returned have been committed for it, so at least one artifact
\* when it returned a post and none when its reply held no text.
C11_AllDroppedCommitsRegenerated ==
    \A p \in Procs :
        LET log == run[p].log
        IN  \A j \in 1..Len(log) :
                (log[j].op = "generate" /\ log[j].survivors = 0 /\ log[j].dropped >= 1)
                => /\ log[j].regenerated
                   /\ log[j].calls = 2
                   /\ \A k \in (j + 1)..Len(log) :
                         (log[k].op = "mark" /\ log[k].idx = log[j].idx)
                         => /\ Cardinality(CommitsBetween(log, j, k)) = Len(log[j].posts)
                            /\ (log[j].posts # <<>>) = (CommitsBetween(log, j, k) # {})

C11_Witness ==
    \E p \in Procs :
        \E j \in 1..Len(run[p].log), k \in 1..Len(run[p].log) :
            /\ j < k
            /\ run[p].log[j].op = "generate"
            /\ run[p].log[j].survivors = 0 /\ run[p].log[j].dropped >= 1
            /\ run[p].log[j].posts # <<>>
            /\ run[p].log[k].op = "mark" /\ run[p].log[k].idx = run[p].log[j].idx

\* a call of _generate_linkedin_posts, returned or raised
IsGeneration(e) == e.op \in {"generate", "generate_failed"}

\* C20: the regeneration call is made exactly when no initial candidate
\* survived the gate and the window was not empty, once: a figure causes one
\* call of _generate_linkedin_posts per run, which makes two generation calls
\* on the regeneration path and one otherwise.
C20_RegenerationExactlyOnce ==
    \A p \in Procs :
        LET log == run[p].log
        IN  \A j \in 1..Len(log) :
                /\ log[j].op = "generate"
                   => /\ log[j].regenerated
                         = (log[j].survivors = 0 /\ log[j].window # <<>>)
                      /\ log[j].calls = (IF log[j].regenerated THEN 2 ELSE 1)
                /\ log[j].op = "generate_failed"
                   => /\ log[j].calls \in {1, 2}
                      /\ log[j].calls = 2
                         => (log[j].survivors = 0 /\ log[j].window # <<>>)
                /\ IsGeneration(log[j])
                   => \A k \in 1..Len(log) :
                          (IsGeneration(log[k]) /\ log[k].idx = log[j].idx) => k = j

C20_Witness ==
    \E p \in Procs :
        \E j \in 1..Len(run[p].log), k \in 1..Len(run[p].log) :
            /\ j < k
            /\ run[p].log[j].op = "generate" /\ run[p].log[j].calls = 1
            /\ run[p].log[j].survivors = 1
            /\ run[p].log[k].op = "generate" /\ run[p].log[k].calls = 2
            /\ run[p].log[k].dropped = 1

\* C12: within one run, an artifact committed for an earlier figure is in the
\* window the candidates of a later figure are filtered against, whichever
\* sink the router chose (taken here for the artifacts it wrote to the CSV
\* file; the sinks hold fewer artifacts than the window limit).
C12_EarlierArtifactsInLaterWindow ==
    \A p \in Procs :
        LET log == run[p].log
        IN  \A k \in 1..Len(log), j \in 1..Len(log) :
                (/\ k < j
                 /\ log[k].op = "commit" /\ log[k].sink = "csv"
                 /\ log[j].op = "generate" /\ log[j].idx # log[k].idx)
                => log[k].post \in Range(log[j].window)

\* the keys (document, index) the table records as processed
ProcessedKeys(table) ==
    {<<r.pdf_sha256, r.image_index>> : r \in {q \in table : q.processed}}

\* C13: the ledger is monotonic: no step of a run, and no start of a run,
\* removes a processed record or sets it back to false.
C13_LedgerMonotonic ==
    [][ProcessedKeys(ledger) \subseteq ProcessedKeys(ledger')]_vars

\* a second run adds a record to the one an earlier run left
C13_Witness ==
    \E p \in Procs :
        /\ run[p].id = 2
        /\ Cardinality(ProcessedKeys(ledger)) = 2
        /\ \E k \in 1..Len(run[p].log) : run[p].log[k].op = "mark"
        /\ Cardinality({k \in 1..Len(run[p].log) : run[p].log[k].op = "mark"}) = 1

\* C14: _get_unprocessed_images returns, ascending and without duplicates,
\* exactly the indices below total_images with no processed record of the
\* document; records of other documents and of larger indices do not count.
C14_UnprocessedIsSetDifference ==
    query.op = "unprocessed"
    => LET res == query.result
       IN  /\ \A a \in 1..Len(res), b \in 1..Len(res) : a < b => res[a] < res[b]
           /\ Range(res) = {i \in 0..(query.total_images - 1) :
                               ~\E r \in ledger : /\ r.pdf_sha256 = query.pdf_hash
                                                  /\ r.image_index = i
                                                  /\ r.processed}

\* with 3 figures and index 1 marked, figures 0 and 2 are left, whatever the
\* other document and a record beyond the total say
C14_Witness ==
    /\ query.op = "unprocessed"
    /\ query.total_images = 3
    /\ query.pdf_hash = get_pdf_hash(PdfBytes)
    /\ query.result = <<0, 2>>
    /\ \E r \in ledger : r.pdf_sha256 # query.pdf_hash /\ r.image_index = 0

\* a call of _mark_processed for a key the ledger already holds
SecondMark ==
    /\ query'.op = "mark"
    /\ query'.marks = query.marks + 1
    /\ query'.present

\* C15 as stated: a second _mark_processed of a key leaves the ledger as the
\* first one left it, every field of every record included.
C15_SecondMarkChangesNothing ==
    [][SecondMark => ledger' = ledger]_vars

\* C15 amended: a second _mark_processed of a key leaves one record for the
\* key, processed, and every other record as it was; the record's created_at
\* becomes the time of the second call.
C15_SecondMarkKeepsKeys ==
    [][SecondMark
       => LET IsKey(r) == /\ r.pdf_sha256 = query'.pdf_hash
                          /\ r.image_index = query'.image_index
          IN  /\ ProcessedKeys(ledger') = ProcessedKeys(ledger)
              /\ Cardinality(ledger') = Cardinality(ledger)
              /\ {r \in ledger' : ~IsKey(r)} = {r \in ledger : ~IsKey(r)}
              /\ \A r \in ledger' : IsKey(r) => r.processed
              /\ \A r \in ledger', q \in ledger :
                    (IsKey(r) /\ IsKey(q)) => r.created_at >= q.created_at]_vars

C15_Witness ==
    /\ query.op = "mark"
    /\ query.present
    /\ Cardinality(ledger) = 2
    /\ \E r \in ledger : /\ r.pdf_sha256 = query.pdf_hash
                          /\ r.image_index = query.image_index
                          /\ r.created_at = 1
    /\ \E r \in ledger : r.created_at = 0

\* the runs in which generation for figure i returned no post
EmptyGenerationRuns(i) == deliveredRuns[i] \ committedRuns[i]

\* C16: a figure whose generation returns no post is marked processed in that
\* run, as the next thing the run does and with nothing committed, and no
\* later run selects it or does anything for it.
C16_EmptyGenerationStillMarked ==
    \A i \in FigureIndices : \A r \in EmptyGenerationRuns(i), p \in SerialProcs :
        LET log == run[p].log
            n == Len(log)
        IN  /\ run[p].id = r
               => \E k \in 1..n :
                     /\ log[k].op = "generate" /\ log[k].idx = i /\ log[k].posts = <<>>
                     /\ IF k = n
                        THEN /\ run[p].pc = "store" /\ run[p].posts = <<>>
                             /\ Head(run[p].todo) = i
                        ELSE /\ log[k + 1].op = "mark" /\ log[k + 1].idx = i
                             /\ HasRecord(i)
            /\ run[p].id > r
               => /\ HasRecord(i)
                  /\ i \notin Range(run[p].unprocessed)
                  /\ \A k \in 1..n : log[k].idx # i

C16_Witness ==
    \E p \in SerialProcs :
        /\ run[p].id = 2
        /\ 1 \in EmptyGenerationRuns(0)
        /\ run[p].unprocessed = <<1>>
        /\ run[p].pc = "store"

\* no call of a collaborator has failed in the run: the conversion, the
\* analysis and the generation calls returned, and every post reached the
\* primary store when the configuration names it
NoCollaboratorFailure(r) ==
    /\ r.outcome \notin {"none", "exited"}
    /\ \A k \in 1..Len(r.log) :
          /\ r.log[k].op \notin {"analyze_failed", "generate_failed"}
          /\ (r.log[k].op = "commit" /\ ConfigComplete(r.cfg)) => r.log[k].sink = "nocodb"

\* C17: a normal-mode run over n valid figures and an empty ledger in which
\* no collaborator call fails ends with every figure processed: the ledger
\* holds exactly the records (document, 0) .. (document, n-1), all processed,
\* and no index is left unprocessed.
C17_FailureFreeRunProcessesAll ==
    \A p \in SerialProcs :
        (/\ run[p].id = 1 /\ ~run[p].test_mode
         /\ run[p].pc = "idle"
         /\ NoCollaboratorFailure(run[p]))
        => /\ run[p].outcome = "returned"
           /\ ProcessedKeys(ledger)
                 = {<<get_pdf_hash(PdfBytes), i>> : i \in 0..(Len(image_dir) - 1)}
           /\ Cardinality(ledger) = Len(image_dir)
           /\ get_unprocessed_images(ledger, get_pdf_hash(PdfBytes), Len(image_dir)) = <<>>

\* a precedes b in lexicographic order of their characters
LexLess(a, b) ==
    \/ Len(a) < Len(b) /\ SubSeq(b, 1, Len(a)) = a
    \/ \E k \in 1..Len(a) :
          /\ k <= Len(b)
          /\ SubSeq(a, 1, k - 1) = SubSeq(b, 1, k - 1)
          /\ Ord(a[k]) < Ord(b[k])

\* the name is images-<anything>.png
MatchesPattern(name) ==
    \E i \in 0..Len(name), j \in 0..Len(name) :
        /\ i <= j
        /\ SubSeq(name, 1, i) = GlobPrefix
        /\ SubSeq(name, j + 1, Len(name)) = GlobSuffix

\* C18: _extract_images returns exactly the files of the directory that match
\* the pattern, can be opened and are more than 300 wide, in ascending
\* lexicographic order, each once (its index is its position); files that
\* cannot be opened are passed over, an absent directory gives the empty
\* sequence, and a second call over the same directory returns the same.
C18_ExtractReturnsValidSorted ==
    \A c \in 1..Len(assets.returned) :
        LET res == assets.returned[c]
        IN  /\ Range(res) = {f.name : f \in {g \in assets.files :
                                  /\ MatchesPattern(g.name)
                                  /\ g.readable
                                  /\ g.width > 300}}
            /\ \A a \in 1..Len(res), b \in 1..Len(res) : a < b => LexLess(res[a], res[b])
            /\ ~assets.exists => res = <<>>
            /\ res = assets.returned[1]

\* images-1.png, images-10.png and images-2.png are returned in that order,
\* next to a file that cannot be opened, one of width 300 and a .jpg file
C18_Witness ==
    /\ Len(assets.returned) = 2
    /\ assets.returned[2] = << GlobPrefix \o <<"1">> \o GlobSuffix,
                               GlobPrefix \o <<"1", "0">> \o GlobSuffix,
                               GlobPrefix \o <<"2">> \o GlobSuffix >>
    /\ \E f \in assets.files : glob_match(f.name) /\ ~f.readable
    /\ \E f \in assets.files : glob_match(f.name) /\ f.readable /\ f.width = 300
    /\ \E f \in assets.files : ~glob_match(f.name) /\ f.readable /\ f.width = 301

\* main() has just left through sys.exit(1)
ExitsOnMissingVars ==
    /\ cli'.starts = cli.starts + 1
    /\ cli'.status = "exit_1"

\* C19: when a required configuration value is absent, main() exits with
\* status 1 before anything else happens: no processor is constructed (so
\* state.db is neither created nor written), no run is started, nothing is
\* analysed, generated or committed.
C19_MissingConfigExitsBeforeProcessing ==
    [][ExitsOnMissingVars
       => /\ RequiredVars \ cli'.env # {}
          /\ cli'.db_created = cli.db_created
          /\ ledger' = ledger
          /\ run' = run /\ runs' = runs
          /\ nocodb' = nocodb /\ csv' = csv
          /\ committedRuns' = committedRuns /\ deliveredRuns' = deliveredRuns]_vars

\* main() exits for a missing NOCODB_BASE_ID after an earlier start has
\* processed a figure
C19_Witness ==
    /\ cli.status = "exit_1"
    /\ cli.env = RequiredVars \ {"NOCODB_BASE_ID"}
    /\ cli.starts = 2
    /\ cli.db_created
    /\ ledger # {}
\* the segments of a reply that hold text, stripped and without em dashes
NonEmptySegments(segments) ==
    LET kept == SelectSeq(segments, LAMBDA post : strip(post) # <<>>)
    IN  [m \in 1..Len(kept) |-> replace_em_dash(strip(kept[m]))]

\* C21: the candidates of the regeneration pass are accepted without the gate:
\* every segment of the regeneration reply that holds text is returned, in
\* order, whatever its similarity to the window, and once the figure is marked
\* each of them has been committed.
C21_RegeneratedAcceptedUnchecked ==
    \A p \in Procs :
        LET log == run[p].log
        IN  \A j \in 1..Len(log) :
                (log[j].op = "generate" /\ log[j].regenerated)
                => /\ log[j].posts = NonEmptySegments(log[j].regen_segments)
                   /\ \A k \in (j + 1)..Len(log) :
                         (log[k].op = "mark" /\ log[k].idx = log[j].idx)
                         => \A m \in 1..Len(log[j].posts) :
                                /\ log[j + m].op = "commit"
                                /\ log[j + m].idx = log[j].idx
                                /\ log[j + m].post = log[j].posts[m]

\* a regenerated post above the threshold against a post of the window has
\* been committed and its figure marked
C21_Witness ==
    \E p \in Procs :
        \E j \in 1..Len(run[p].log), k \in 1..Len(run[p].log) :
            /\ j < k
            /\ run[p].log[j].op = "generate" /\ run[p].log[j].regenerated
            /\ run[p].log[k].op = "mark" /\ run[p].log[k].idx = run[p].log[j].idx
            /\ \E m \in 1..Len(run[p].log[j].posts), w \in 1..Len(run[p].log[j].window) :
                   /\ JaccardAbove(run[p].log[j].posts[m], run[p].log[j].window[w],
                                   GateThreshold)
                   /\ run[p].log[j + m].op = "commit"
                   /\ run[p].log[j + m].post = run[p].log[j].posts[m]

\* C22: within one commit the image upload is requested before the record
\* write, the write is requested only after the upload returned a file, and
\* when one of the four configuration values is missing neither request is
\* made and the post goes to the CSV file.
C22_UploadBeforeWrite ==
    call.op = "store_in_nocodb"
    => LET requests == call.result.requests
       IN  /\ \A i \in 1..Len(requests) :
                 requests[i] = "write"
                 => /\ i = 2
                    /\ requests[1] = "upload"
                    /\ call.args.upload_ok
           /\ (call.result.sink = "nocodb") => (requests = <<"upload", "write">>)
           /\ ~(ConfigKeys \subseteq call.args.cfg)
              => /\ requests = <<>>
                 /\ call.result.sink = "csv"
                 /\ call.result.csv = Len(csv) /\ call.result.nocodb = Len(nocodb)

\* a commit with all four values set whose upload failed: no write, CSV row
C22_Witness ==
    /\ call.op = "store_in_nocodb"
    /\ ConfigKeys \subseteq call.args.cfg
    /\ ~call.args.upload_ok
    /\ call.result.requests = <<"upload">>
    /\ call.result.sink = "csv"
    /\ Len(csv) >= 2

\* C23: the gate is applied at two points with two thresholds, against the
\* openings of the window posts (the looser 0.7) and against their full
\* bodies (the stricter 0.6), and a candidate failing either is dropped: no
\* post returned by the initial pass is above 0.7 against an opening of the
\* window or above 0.6 against a full post of it.
C23_OpeningsAndBodiesGated ==
    (/\ call.op = "generate_linkedin_posts"
     /\ ~call.result.generation.raised
     /\ ~call.result.generation.regenerated)
    => LET g == call.result.generation
           recent_intros == call.result.recent_intros
       IN  \A m \in 1..Len(g.posts) :
               /\ \A w \in 1..Len(recent_intros) :
                      ~JaccardAbove(g.posts[m], recent_intros[w], DefaultThreshold)
               /\ \A w \in 1..Len(g.window) :
                      ~JaccardAbove(g.posts[m], g.window[w], GateThreshold)

\* C24: the two candidates are assigned distinct tones: whatever the random
\* draws, the two selected tones differ.
C24_SelectedTonesDiffer ==
    (call.op = "select_tones" /\ Len(call.result) = NumTones)
    => call.result[1] # call.result[2]

\* the events of a log that mark a figure
Marks(log) == {k \in 1..Len(log) : log[k].op = "mark"}

\* C25: a test-mode run handles one figure at most, the lowest-indexed one of
\* its unprocessed list, and marks nothing else; when it returns, the
\* document's processed figures are those processed before plus that one, so
\* successive test-mode runs take the figures one per run in ascending order.
C25_TestModeOneLowestFigure ==
    \A p \in Procs :
        (run[p].test_mode /\ run[p].unprocessed # <<>>)
        => LET first == run[p].unprocessed[1]
               log == run[p].log
           IN  /\ \A i \in Range(run[p].unprocessed) : first <= i
               /\ \A k \in 1..Len(log) : log[k].idx = first
               /\ Cardinality(Marks(log)) <= 1
               /\ run[p].outcome = "returned"
                  => /\ Cardinality(Marks(log)) = 1
                     /\ {i \in 0..(Len(image_dir) - 1) : HasRecord(i)}
                           = ((0..(Len(image_dir) - 1)) \ Range(run[p].unprocessed))
                             \cup {first}

\* the second of two test-mode runs over two figures has returned: the first
\* run took figure 0, this one figure 1, and none is left
C25_Witness ==
    \E p \in Procs :
        /\ Len(image_dir) = 2
        /\ run[p].id = 2 /\ run[p].test_mode /\ run[p].outcome = "returned"
        /\ run[p].prev.test_mode /\ run[p].prev.outcome = "returned"
        /\ run[p].unprocessed = <<1>>
        /\ run[p].log[Len(run[p].log)] = [op |-> "mark", idx |-> 1]
        /\ HasRecord(0) /\ HasRecord(1)

\* C26: a reply of the vision model that is not JSON, fenced or not, does not
\* fail the figure: the analysis handed on is the minimal object carrying the
\* raw text, never the raw text itself, and the commit of a figure analysed
\* that way does not raise, so the figure goes on to generation, commit and
\* mark as with a well-formed reply.
C26_UnparseableAnalysisProceeds ==
    \A p \in Procs :
        /\ run[p].image_analysis \notin {"free_text"}
        /\ run[p].image_analysis = "raw_fallback"
           => /\ run[p].log # <<>>
              /\ run[p].pc \in {"generate", "store"}
                 => \E k \in 1..Len(run[p].log) :
                        /\ run[p].log[k] = [op |-> "analyze", idx |-> Head(run[p].todo)]
                        /\ \A m \in (k + 1)..Len(run[p].log) :
                               run[p].log[m].idx = Head(run[p].todo)
              /\ run[p].outcome = "raised"
                 => run[p].log[Len(run[p].log)].op # "commit_failed"

\* a figure whose analysis reply was not JSON has been committed to NocoDB
\* and marked
C26_Witness ==
    \E p \in Procs :
        /\ run[p].image_analysis = "raw_fallback"
        /\ Len(run[p].log) >= 4
        /\ LET n == Len(run[p].log)
           IN  /\ run[p].log[n].op = "mark"
               /\ run[p].log[n - 1].op = "commit" /\ run[p].log[n - 1].sink = "nocodb"
               /\ run[p].log[n - 1].idx = run[p].log[n].idx
               /\ HasRecord(run[p].log[n].idx)

\* the run with this id overlapped the run of processor p: it was in progress
\* when p's run started, or it started later
Overlapped(p, id) == id \in run[p].overlap \/ id > run[p].id

\* C27: runs that do not overlap are safe: a figure a run has selected and not
\* yet marked itself has a ledger record only if the run of another process
\* overlapped it.  (That overlapping runs do select and commit the same figure
\* is the witness.)
C27_OnlyOverlappingRunsShareAFigure ==
    \A p \in Procs :
        run[p].pc # "idle"
        => \A i \in Range(run[p].todo) :
               HasRecord(i)
               => \E q \in Procs \ {p} : run[q].id # 0 /\ Overlapped(p, run[q].id)

\* two interleaved runs read the same unprocessed list and both have committed
\* an artifact for its first figure, which both have marked
C27_Witness ==
    \E i \in FigureIndices :
        /\ run[1].id # 0 /\ run[2].id # 0
        /\ Overlapped(1, run[2].id)
        /\ run[1].unprocessed = run[2].unprocessed
        /\ \A p \in Procs :
               /\ run[p].outcome = "returned"
               /\ \E j \in 1..Len(run[p].log) :
                      run[p].log[j].op = "commit" /\ run[p].log[j].idx = i
               /\ \E j \in 1..Len(run[p].log) :
                      run[p].log[j] = [op |-> "mark", idx |-> i]
        /\ Cardinality(committedRuns[i]) = 2
        /\ Stored >= 2

\* the window read of a generation on its own could not be made: the fetch
\* failed, or the base URL, the API key or the table id is not set
WindowReadFailed ==
    /\ call.op = "generate_linkedin_posts"
    /\ \/ ~call.args.fetch_ok
       \/ ~({"base_url", "api_key", "table_id"} \subseteq call.args.cfg)

====
